---- MODULE Spec2Model ----
(***************************************************************************)
(* Model of appstore_top_free.py: a monitor that, once per invocation,     *)
(* fetches two App Store charts, the TSA passenger table and two approval  *)
(* CSV feeds, stores the extracted facts in state files, sends a heartbeat *)
(* every four hours and a change alert per source whose fact changed.      *)
(*                                                                         *)
(* Text is modelled as follows.  A name is a sequence of words.  Table and *)
(* CSV cells are strings of a small alphabet whose parsing and trimming is *)
(* given by lookup operators.  A JSON value is a record: a list is         *)
(* [list |-> <<...>>], a dict is the record of its keys, None is           *)
(* [none |-> TRUE].  A state file holds [text |-> value] or is NoFile.     *)
(***************************************************************************)
EXTENDS Integers, Sequences, FiniteSets, TLC

VARIABLES
    store,                  \* path -> content of the state file
    clock,                  \* wall clock (UTC), whole hours
    pc,                     \* position of main()
    prev_free, prev_paid, prev_tsa, prev_approval, prev_trump_approval,
    free_top3, paid_top1, tsa_latest, approval_latest, trump_approval_latest,
    now, last_heartbeat,
    heartbeat,              \* text of the heartbeat message built in this run
    sent,                   \* messages handed to send_telegram in this run
    tg,                     \* how the send_telegram call of the latest step ended
    exit_code,              \* exit status of the process
    input,                  \* content under extraction (extractor runs)
    result,                 \* what the extractor returned for input
    hist                    \* history of the completed runs (observer only)

vars == <<store, clock, pc,
          prev_free, prev_paid, prev_tsa, prev_approval, prev_trump_approval,
          free_top3, paid_top1, tsa_latest, approval_latest,
          trump_approval_latest, now, last_heartbeat, heartbeat,
          sent, tg, exit_code, input, result, hist>>

prevs   == <<prev_free, prev_paid, prev_tsa, prev_approval, prev_trump_approval>>
latests == <<free_top3, paid_top1, tsa_latest, approval_latest,
             trump_approval_latest>>
beat    == <<now, last_heartbeat, heartbeat>>
io      == <<input, result>>

----------------------------------------------------------------------------
(* Bounds *)

MaxTime == 4            \* the clock runs over 0..MaxTime hours
MaxTables == 2          \* tables on a TSA page
MaxRows == 4            \* data rows of a table
MaxPrior == 3           \* items of a prior snapshot found on disk
MaxCsvRows == 3         \* data rows of a CSV text
MaxAnchors == 3         \* anchors of a chart page

(* Program constants *)

HEARTBEAT_INTERVAL == 4
ScanWindow == 3         \* rows[1:4]
NameWords == 6          \* words[:6]

----------------------------------------------------------------------------
(* JSON values and state files *)

None == [none |-> TRUE]

IsNone(v) == "none" \in DOMAIN v

JList(s) == [list |-> s]

IsList(v) == "list" \in DOMAIN v

\* isinstance(v, dict)
IsDict(v) == ~IsNone(v) /\ ~IsList(v)

NoFile == [nofile |-> TRUE]

FREE_STATE_PATH == "state/top3_free.json"
PAID_STATE_PATH == "state/top1_paid.json"
TSA_STATE_PATH == "state/tsa_latest.json"
APPROVAL_STATE_PATH == "state/approval_latest.json"
TRUMP_APPROVAL_STATE_PATH == "state/trump_approval_latest.json"
HEARTBEAT_STATE_PATH == "state/last_heartbeat.json"

Paths == {FREE_STATE_PATH, PAID_STATE_PATH, TSA_STATE_PATH,
          APPROVAL_STATE_PATH, TRUMP_APPROVAL_STATE_PATH,
          HEARTBEAT_STATE_PATH}

\* load_json: None when the file does not exist, else the parsed value
load_json(st, path) ==
    IF st[path] = NoFile THEN None ELSE st[path].text

\* save_json: the file now holds the serialised value
save_json(st, path, data) == [st EXCEPT ![path] = [text |-> data]]

\* datetime.isoformat / datetime.fromisoformat, at the clock's resolution
isoformat(t) == [day |-> t \div 24, hour |-> t % 24]

fromisoformat(ts) == ts.day * 24 + ts.hour

NoTime == -1

\* load_last_heartbeat: NoTime stands for None
load_last_heartbeat(st) ==
    LET data == load_json(st, HEARTBEAT_STATE_PATH)
    IN  IF ~IsDict(data) THEN NoTime
        ELSE IF "ts" \notin DOMAIN data THEN NoTime
        ELSE fromisoformat(data.ts)

save_last_heartbeat(st, ts) ==
    save_json(st, HEARTBEAT_STATE_PATH, [ts |-> isoformat(ts)])

----------------------------------------------------------------------------
(* Fetching: a transport error or the text of the response *)

FetchError == [ok |-> FALSE]

Fetched(text) == [ok |-> TRUE, text |-> text]

\* fetch_html / fetch_text over the contents a URL may serve
Responses(texts) == {FetchError} \cup {Fetched(t) : t \in texts}

----------------------------------------------------------------------------
(* App Store chart parsing.  An anchor is                                  *)
(*   [app, id : whether the href contains "/app/" and "id",                *)
(*    rank    : the number its text starts with, 0 when there is none,     *)
(*    heading : <<name>> when it has an h3/h2 (name may be <<>>), else <<>>*)
(*              with hashead FALSE,                                        *)
(*    rest    : the words of its text after the rank]                      *)

Min(a, b) == IF a < b THEN a ELSE b

\* re.sub(r"\s+View$", "", text): a trailing View after other text goes
StripView(words) ==
    IF Len(words) > 0 /\ words[Len(words)] = "View"
    THEN SubSeq(words, 1, Len(words) - 1)
    ELSE words

\* extract_app_name_from_anchor; <<>> stands for None
extract_app_name_from_anchor(a) ==
    IF a.hashead THEN a.heading
    ELSE IF a.rank = 0 THEN <<>>
    ELSE LET words == StripView(a.rest)
         IN  SubSeq(words, 1, Min(NameWords, Len(words)))

\* the (rank, name) candidates in document order
RECURSIVE Candidates(_, _)
Candidates(anchors, ranks) ==
    IF anchors = <<>> THEN <<>>
    ELSE LET a == Head(anchors)
             tl == Candidates(Tail(anchors), ranks)
             name == extract_app_name_from_anchor(a)
         IN  IF ~(a.app /\ a.id) THEN tl
             ELSE IF a.rank = 0 THEN tl
             ELSE IF \A i \in 1..Len(ranks) : ranks[i] # a.rank THEN tl
             ELSE IF name = <<>> THEN tl
             ELSE <<[rank |-> a.rank, name |-> name]>> \o tl

\* by_rank[r]: the first-seen name of rank r, <<>> when r was not seen
RECURSIVE FirstName(_, _)
FirstName(cands, r) ==
    IF cands = <<>> THEN <<>>
    ELSE IF Head(cands).rank = r THEN Head(cands).name
    ELSE FirstName(Tail(cands), r)

\* variant: the candidates are returned as collected, in document order
EmitRanks_AllCandidates(cands, ranks) == cands

\* out: the wanted ranks that were seen, in the order of ranks
RECURSIVE EmitRanks(_, _)
EmitRanks(cands, ranks) ==
    IF ranks = <<>> THEN <<>>
    ELSE LET nm == FirstName(cands, Head(ranks))
             tl == EmitRanks(cands, Tail(ranks))
         IN  IF nm = <<>> THEN tl
             ELSE <<[rank |-> Head(ranks), name |-> nm]>> \o tl

parse_chart_topN(html, ranks) == EmitRanks(Candidates(html, ranks), ranks)

----------------------------------------------------------------------------
(* TSA page parsing.  A page is the sequence of its tables, a table the    *)
(* sequence of its tr rows, a row the sequence of its td/th cell texts.    *)

\* "date" in header_text, for the lower-cased text of one header cell
ContainsDate(cell) == cell \in {"Date", "date", "Travel date"}

\* _parse_tsa_date: %m/%d/%Y, then %m/%d/%y, then %Y-%m-%d; "" for None
_parse_tsa_date(s) ==
    CASE s = "1/2/2024"   -> "2024-01-02"
      [] s = "01/02/2024" -> "2024-01-02"
      [] s = "1/3/2024"   -> "2024-01-03"
      [] s = "1/2/24"     -> "2024-01-02"
      [] s = "1/3/24"     -> "2024-01-03"
      [] s = "2024-01-02" -> "2024-01-02"
      [] s = "2024-01-03" -> "2024-01-03"
      [] s = "1/4/2024"   -> "2024-01-04"
      [] OTHER            -> ""

NoInt == -1

\* _parse_int: commas and whitespace removed, digits only; NoInt for None
_parse_int(s) ==
    CASE s = "2,000" -> 2000
      [] s = "2000"  -> 2000
      [] s = "2 000" -> 2000
      [] s = "3,000" -> 3000
      [] s = "3000"  -> 3000
      [] s = "1,000" -> 1000
      [] s = "4,000" -> 4000
      [] s = "5,000" -> 5000
      [] s = "0"     -> 0
      [] OTHER       -> NoInt

\* the loop over rows[1:4] of one table: the first row that parses
RECURSIVE ScanRows(_)
ScanRows(rows) ==
    IF rows = <<>> THEN None
    ELSE LET cells == Head(rows)
         IN  IF Len(cells) < 2 THEN ScanRows(Tail(rows))
             ELSE LET date_iso == _parse_tsa_date(cells[1])
                      passengers == _parse_int(cells[2])
                  IN  IF date_iso # "" /\ passengers # NoInt
                      THEN [date |-> date_iso, passengers |-> passengers]
                      ELSE ScanRows(Tail(rows))

\* rows[0] contains the header keyword
HeaderMatches(table) ==
    \E i \in 1..Len(table[1]) : ContainsDate(table[1][i])

\* rows[1:4]
Window(rows) == SubSeq(rows, 2, Min(1 + ScanWindow, Len(rows)))

RECURSIVE parse_tsa_latest(_)
parse_tsa_latest(html) ==
    IF html = <<>> THEN None
    ELSE LET rows == Head(html)
         IN  IF Len(rows) < 2 THEN parse_tsa_latest(Tail(html))
             ELSE IF ~HeaderMatches(rows) THEN parse_tsa_latest(Tail(html))
             ELSE LET found == ScanRows(Window(rows))
                  IN  IF ~IsNone(found) THEN found
                      ELSE parse_tsa_latest(Tail(html))

----------------------------------------------------------------------------
(* Approval CSV parsing.  A CSV text is [fieldnames, rows]: the header     *)
(* names and, per data row, its cells in column order (a short row lacks   *)
(* its trailing cells, which DictReader reads as None).                    *)

\* str.strip() on the cell and header texts of the model
Strip(s) ==
    CASE s = " "          -> ""
      [] s = " 45 "       -> "45"
      [] s = " 46 "       -> "46"
      [] s = " <html>"    -> "<html>"
      [] s = " Approval " -> "Approval"
      [] s = "Date "      -> "Date"
      [] OTHER            -> s

\* str.lower() on the header names of the model
Lower(s) ==
    CASE s = "Approval" -> "approval"
      [] s = "APPROVAL" -> "approval"
      [] s = "Date"     -> "date"
      [] s = "Week"     -> "week"
      [] s = "<!DOCTYPE html>" -> "<!doctype html>"
      [] OTHER          -> s

\* index of the first header equal to name after strip().lower(), else 0
RECURSIVE FindCol(_, _, _)
FindCol(fieldnames, name, i) ==
    IF i > Len(fieldnames) THEN 0
    ELSE IF fieldnames[i] # "" /\ Lower(Strip(fieldnames[i])) = name THEN i
    ELSE FindCol(fieldnames, name, i + 1)

DateKeyCandidates == <<"date", "day", "week", "month", "timestamp", "time">>

\* the first candidate, in priority order, that names a column; 0 if none
RECURSIVE FindDateKeyCol(_, _)
FindDateKeyCol(fieldnames, k) ==
    IF k > Len(DateKeyCandidates) THEN 0
    ELSE LET c == FindCol(fieldnames, DateKeyCandidates[k], 1)
         IN  IF c # 0 THEN c ELSE FindDateKeyCol(fieldnames, k + 1)

\* the column a header name is read from: DictReader builds each row as
\* dict(zip(fieldnames, row)), so a repeated name keeps its last column
NamedCol(fieldnames, col) ==
    IF col = 0 THEN 0
    ELSE CHOOSE j \in 1..Len(fieldnames) :
            /\ fieldnames[j] = fieldnames[col]
            /\ \A k \in 1..Len(fieldnames) :
                  fieldnames[k] = fieldnames[col] => k <= j

\* (row.get(col) or "").strip()
CellOf(row, col) == IF col <= Len(row) THEN Strip(row[col]) ELSE ""

\* f"row_{i+1}"
RowLabel(n) == <<"row_1", "row_2", "row_3", "row_4", "row_5">>[n]

RECURSIVE LatestRow(_, _, _, _)

\* variant: only the last row of the file is looked at
LatestRow_LastRowOnly(rows, i, approval_col, date_key_col) ==
    LET val == CellOf(rows[i], approval_col)
        key == IF date_key_col # 0 THEN CellOf(rows[i], date_key_col)
               ELSE ""
    IN  IF val = "" THEN None
        ELSE [row_key |-> IF key # "" THEN key ELSE RowLabel(i),
              approval |-> val]

\* variant: a row whose key cell is empty is passed over
LatestRow_SkipUnkeyed(rows, i, approval_col, date_key_col) ==
    IF i < 1 THEN None
    ELSE LET val == CellOf(rows[i], approval_col)
             key == IF date_key_col # 0 THEN CellOf(rows[i], date_key_col)
                    ELSE ""
         IN  IF val = "" \/ key = ""
             THEN LatestRow(rows, i - 1, approval_col, date_key_col)
             ELSE [row_key |-> key, approval |-> val]

\* the walk from the last row to the first
LatestRow(rows, i, approval_col, date_key_col) ==
    IF i < 1 THEN None
    ELSE LET val == CellOf(rows[i], approval_col)
             key == IF date_key_col # 0 THEN CellOf(rows[i], date_key_col)
                    ELSE ""
         IN  IF val = "" THEN LatestRow(rows, i - 1, approval_col, date_key_col)
             ELSE [row_key |-> IF key # "" THEN key ELSE RowLabel(i),
                   approval |-> val]

parse_latest_approval_from_csv(csv_text) ==
    IF csv_text.fieldnames = <<>> THEN None
    ELSE LET approval_col ==
                 NamedCol(csv_text.fieldnames,
                          FindCol(csv_text.fieldnames, "approval", 1))
             date_key_col ==
                 NamedCol(csv_text.fieldnames,
                          FindDateKeyCol(csv_text.fieldnames, 1))
         IN  IF approval_col = 0 THEN None
             ELSE IF csv_text.rows = <<>> THEN None
             ELSE LatestRow(csv_text.rows, Len(csv_text.rows),
                            approval_col, date_key_col)

----------------------------------------------------------------------------
(* Telegram *)

\* send_telegram ends in one of: secrets not set (skipped), r.ok
\* (delivered), not r.ok (failed), requests.post raised (exception)
SendOutcomes == {"skipped", "delivered", "failed", "exception"}

\* The history of the completed runs, kept for the properties that span
\* runs and read by no action: per source the fact of the last completed
\* run that extracted one (fact); when gaps are recorded, the optional
\* sources that did not extract in the last completed run while such a
\* fact existed (stale); when losses are recorded, the sources whose most
\* recent change alert was handed to send_telegram without a delivery
\* (lost).
Kinds == {"free", "paid", "tsa", "approval", "trump"}

NoHistory ==
    [mode |-> "off", fact |-> [k \in Kinds |-> None], stale |-> {},
     lost |-> {}]

Observe(h, kind, outcome) ==
    IF h.mode = "losses" /\ kind \in Kinds
    THEN [h EXCEPT !.lost = IF outcome = "delivered" THEN @ \ {kind}
                            ELSE @ \cup {kind}]
    ELSE h

\* send_telegram(message): returns normally whatever the outcome
send_telegram(kind) ==
    /\ sent' = sent \cup {kind}
    /\ \E secrets \in BOOLEAN, response \in {"ok", "not_ok", "raised"} :
          tg' = IF ~secrets THEN "skipped"
                ELSE IF response = "raised" THEN "exception"
                ELSE IF response = "not_ok" THEN "failed"
                ELSE "delivered"
    /\ hist' = Observe(hist, kind, tg')

\* a step that calls send_telegram for nothing
no_send == sent' = sent /\ tg' = "none" /\ hist' = hist

----------------------------------------------------------------------------
(* Change rules *)

\* d.get(k), "" standing for None
Get(d, k) == IF k \in DOMAIN d THEN d[k] ELSE ""

\* a comparison that takes a missing prior for a different one
RankedChanged_NoPriorGuard(prev, current) == prev # JList(current)

\* a comparison that looks at the names only
RankedChanged_NamesOnly(prev, current) ==
    /\ IsList(prev)
    /\ [i \in 1..Len(prev.list) |-> prev.list[i].name]
           # [i \in 1..Len(current) |-> current[i].name]

\* isinstance(prev, list) and prev != current
RankedChanged(prev, current) == IsList(prev) /\ prev # JList(current)

\* a comparison of the whole record instead of the date
TsaChanged_WholeRecord(prev, latest) ==
    /\ ~IsNone(latest)
    /\ IsDict(prev)
    /\ prev # latest

\* lines 486-489
TsaChanged(prev, latest) ==
    /\ ~IsNone(latest)
    /\ IsDict(prev)
    /\ LET prev_date == Get(prev, "date")
           new_date == Get(latest, "date")
       IN  prev_date # "" /\ new_date # "" /\ prev_date # new_date

\* a comparison without the non-empty guards
ApprovalChanged_NoEmptyGuard(prev, latest) ==
    /\ ~IsNone(latest)
    /\ IsDict(prev)
    /\ \/ Strip(Get(prev, "row_key")) # Strip(Get(latest, "row_key"))
       \/ Strip(Get(prev, "approval")) # Strip(Get(latest, "approval"))

\* maybe_send_approval_alert, lines 334-344
ApprovalChanged(prev, latest) ==
    /\ ~IsNone(latest)
    /\ IsDict(prev)
    /\ LET prev_key == Strip(Get(prev, "row_key"))
           prev_val == Strip(Get(prev, "approval"))
           new_key == Strip(Get(latest, "row_key"))
           new_val == Strip(Get(latest, "approval"))
       IN  \/ prev_key # "" /\ new_key # "" /\ prev_key # new_key
           \/ prev_val # "" /\ new_val # "" /\ prev_val # new_val

----------------------------------------------------------------------------
(* What the monitored URLs serve in the runs of main() *)

HeadAnchor(r, name) ==
    [app |-> TRUE, id |-> TRUE, rank |-> r, hashead |-> TRUE,
     heading |-> name, rest |-> name]

TextAnchor(r, words) ==
    [app |-> TRUE, id |-> TRUE, rank |-> r, hashead |-> FALSE,
     heading |-> <<>>, rest |-> words]

StoryLink(r, name) ==
    [app |-> FALSE, id |-> TRUE, rank |-> r, hashead |-> TRUE,
     heading |-> name, rest |-> name]

FreePages ==
    { <<HeadAnchor(1, <<"Alpha">>), HeadAnchor(2, <<"Beta">>),
        HeadAnchor(3, <<"Gamma">>)>>,
      <<TextAnchor(1, <<"Alpha", "View">>), HeadAnchor(2, <<"Delta">>),
        HeadAnchor(3, <<"Gamma">>), HeadAnchor(2, <<"Beta">>)>>,
      <<HeadAnchor(1, <<"Alpha">>), HeadAnchor(2, <<"Beta">>),
        StoryLink(3, <<"Gamma">>)>> }

PaidPages ==
    { <<HeadAnchor(1, <<"Papa">>), HeadAnchor(2, <<"Alpha">>)>>,
      <<StoryLink(1, <<"Papa">>), TextAnchor(1, <<"Quebec", "View">>)>>,
      <<HeadAnchor(2, <<"Papa">>)>> }

DateHeader == <<"Date", "Numbers">>

OtherHeader == <<"Year", "Total">>

TsaPages ==
    { << <<DateHeader, <<"1/2/2024", "2,000">>, <<"1/1/2024", "3,000">>>> >>,
      << <<OtherHeader, <<"1/2/2024", "2,000">>>>,
         <<DateHeader, <<"n/a", "n/a">>, <<"1/3/24", "3000">>>> >>,
      << <<DateHeader>>, <<OtherHeader, <<"1/2/2024", "2,000">>>> >> }

CsvTexts ==
    { [fieldnames |-> <<"Date", "Approval">>,
       rows |-> << <<"1/2/2024", "45">> >>],
      [fieldnames |-> <<"Date", "Approval">>,
       rows |-> << <<"1/2/2024", "45">>, <<"1/3/2024", "46">>,
                   <<"1/4/2024", "">> >>],
      [fieldnames |-> <<"<!DOCTYPE html>">>, rows |-> <<>>] }

----------------------------------------------------------------------------
(* main() *)

Running == -1

FreeRanks == <<1, 2, 3>>

PaidRanks == <<1>>

Init ==
    /\ store = [p \in Paths |-> NoFile]
    /\ clock = 0
    /\ pc = "idle"
    /\ prev_free = None /\ prev_paid = None /\ prev_tsa = None
    /\ prev_approval = None /\ prev_trump_approval = None
    /\ free_top3 = <<>> /\ paid_top1 = <<>>
    /\ tsa_latest = None /\ approval_latest = None
    /\ trump_approval_latest = None
    /\ now = NoTime /\ last_heartbeat = NoTime /\ heartbeat = None
    /\ sent = {} /\ tg = "none" /\ hist = NoHistory
    /\ exit_code = Running
    /\ input = None /\ result = None

\* time passes between two invocations
Tick ==
    /\ pc = "idle"
    /\ clock < MaxTime
    /\ clock' = clock + 1
    /\ UNCHANGED <<store, pc, prevs, latests, beat, sent, tg, hist, exit_code,
                   io>>

\* lines 361-366: the scheduler starts main(), which loads the previous states
Start ==
    /\ pc = "idle"
    /\ pc' = "free"
    /\ prev_free' = load_json(store, FREE_STATE_PATH)
    /\ prev_paid' = load_json(store, PAID_STATE_PATH)
    /\ prev_tsa' = load_json(store, TSA_STATE_PATH)
    /\ prev_approval' = load_json(store, APPROVAL_STATE_PATH)
    /\ prev_trump_approval' = load_json(store, TRUMP_APPROVAL_STATE_PATH)
    /\ UNCHANGED <<store, clock, latests, beat, sent, tg, hist, exit_code, io>>

\* the top-free list saved as soon as it is parsed
FetchFree_SaveAtOnce ==
    /\ pc = "free"
    /\ \E r \in Responses(FreePages) :
          IF ~r.ok
          THEN /\ pc' = "done" /\ exit_code' = 1
               /\ UNCHANGED <<free_top3, store>>
          ELSE LET top == parse_chart_topN(r.text, FreeRanks)
               IN  /\ free_top3' = top
                   /\ IF Len(top) < 3
                      THEN pc' = "done" /\ exit_code' = 1 /\ UNCHANGED store
                      ELSE /\ pc' = "paid" /\ UNCHANGED exit_code
                           /\ store' = save_json(store, FREE_STATE_PATH,
                                                 JList(top))
    /\ UNCHANGED <<clock, prevs, paid_top1, tsa_latest,
                   approval_latest, trump_approval_latest, beat, sent, tg,
                   hist, io>>

\* lines 368-373; an exception of fetch_html leaves main() and the
\* interpreter exits with status 1
FetchFree ==
    /\ pc = "free"
    /\ \E r \in Responses(FreePages) :
          IF ~r.ok
          THEN /\ pc' = "done" /\ exit_code' = 1
               /\ UNCHANGED free_top3
          ELSE LET top == parse_chart_topN(r.text, FreeRanks)
               IN  /\ free_top3' = top
                   /\ IF Len(top) < 3
                      THEN pc' = "done" /\ exit_code' = 1
                      ELSE pc' = "paid" /\ UNCHANGED exit_code
    /\ UNCHANGED <<store, clock, prevs, paid_top1, tsa_latest,
                   approval_latest, trump_approval_latest, beat, sent, tg,
                   hist, io>>

\* the paid chart accepted whatever the number of items found
FetchPaid_Unchecked ==
    /\ pc = "paid"
    /\ \E r \in Responses(PaidPages) :
          IF ~r.ok
          THEN /\ pc' = "done" /\ exit_code' = 1
               /\ UNCHANGED paid_top1
          ELSE /\ paid_top1' = parse_chart_topN(r.text, PaidRanks)
               /\ pc' = "tsa" /\ UNCHANGED exit_code
    /\ UNCHANGED <<store, clock, prevs, free_top3, tsa_latest,
                   approval_latest, trump_approval_latest, beat, sent, tg,
                   hist, io>>

\* lines 375-380
FetchPaid ==
    /\ pc = "paid"
    /\ \E r \in Responses(PaidPages) :
          IF ~r.ok
          THEN /\ pc' = "done" /\ exit_code' = 1
               /\ UNCHANGED paid_top1
          ELSE LET top == parse_chart_topN(r.text, PaidRanks)
               IN  /\ paid_top1' = top
                   /\ IF Len(top) < 1
                      THEN pc' = "done" /\ exit_code' = 1
                      ELSE pc' = "tsa" /\ UNCHANGED exit_code
    /\ UNCHANGED <<store, clock, prevs, free_top3, tsa_latest,
                   approval_latest, trump_approval_latest, beat, sent, tg,
                   hist, io>>

\* the TSA record written whatever the extraction returned
FetchTsa_SaveAlways ==
    /\ pc = "tsa"
    /\ pc' = "approval"
    /\ \E r \in Responses(TsaPages) :
          LET latest == IF r.ok THEN parse_tsa_latest(r.text) ELSE None
          IN  /\ tsa_latest' = latest
              /\ store' = save_json(store, TSA_STATE_PATH, latest)
    /\ UNCHANGED <<clock, prevs, free_top3, paid_top1, approval_latest,
                   trump_approval_latest, beat, sent, tg, hist, exit_code, io>>

\* a failed TSA extraction ending the run
FetchTsa_AbortOnFailure ==
    /\ pc = "tsa"
    /\ \E r \in Responses(TsaPages) :
          LET latest == IF r.ok THEN parse_tsa_latest(r.text) ELSE None
          IN  /\ tsa_latest' = latest
              /\ IF ~IsNone(latest)
                 THEN /\ store' = save_json(store, TSA_STATE_PATH, latest)
                      /\ pc' = "approval" /\ UNCHANGED exit_code
                 ELSE /\ pc' = "done" /\ exit_code' = 1
                      /\ UNCHANGED store
    /\ UNCHANGED <<clock, prevs, free_top3, paid_top1, approval_latest,
                   trump_approval_latest, beat, sent, tg, hist, io>>

\* the state file removed when the extraction fails
FetchTsa_ForgetOnFailure ==
    /\ pc = "tsa"
    /\ pc' = "approval"
    /\ \E r \in Responses(TsaPages) :
          LET latest == IF r.ok THEN parse_tsa_latest(r.text) ELSE None
          IN  /\ tsa_latest' = latest
              /\ store' = IF ~IsNone(latest)
                          THEN save_json(store, TSA_STATE_PATH, latest)
                          ELSE [store EXCEPT ![TSA_STATE_PATH] = NoFile]
    /\ UNCHANGED <<clock, prevs, free_top3, paid_top1, approval_latest,
                   trump_approval_latest, beat, sent, tg, hist, exit_code, io>>

\* lines 382-393
FetchTsa ==
    /\ pc = "tsa"
    /\ pc' = "approval"
    /\ \E r \in Responses(TsaPages) :
          LET latest == IF r.ok THEN parse_tsa_latest(r.text) ELSE None
          IN  /\ tsa_latest' = latest
              /\ store' = IF ~IsNone(latest)
                          THEN save_json(store, TSA_STATE_PATH, latest)
                          ELSE store
    /\ UNCHANGED <<clock, prevs, free_top3, paid_top1, approval_latest,
                   trump_approval_latest, beat, sent, tg, hist, exit_code, io>>

\* lines 395-406
FetchApproval ==
    /\ pc = "approval"
    /\ pc' = "trump"
    /\ \E r \in Responses(CsvTexts) :
          LET latest == IF r.ok THEN parse_latest_approval_from_csv(r.text)
                        ELSE None
          IN  /\ approval_latest' = latest
              /\ store' = IF ~IsNone(latest)
                          THEN save_json(store, APPROVAL_STATE_PATH, latest)
                          ELSE store
    /\ UNCHANGED <<clock, prevs, free_top3, paid_top1, tsa_latest,
                   trump_approval_latest, beat, sent, tg, hist, exit_code, io>>

\* lines 408-419
FetchTrumpApproval ==
    /\ pc = "trump"
    /\ pc' = "save"
    /\ \E r \in Responses(CsvTexts) :
          LET latest == IF r.ok THEN parse_latest_approval_from_csv(r.text)
                        ELSE None
          IN  /\ trump_approval_latest' = latest
              /\ store' = IF ~IsNone(latest)
                          THEN save_json(store, TRUMP_APPROVAL_STATE_PATH,
                                         latest)
                          ELSE store
    /\ UNCHANGED <<clock, prevs, free_top3, paid_top1, tsa_latest,
                   approval_latest, beat, sent, tg, hist, exit_code, io>>

\* the top-free list saved only while no state file of it exists
SaveAppStore_FreeOnce ==
    /\ pc = "save"
    /\ pc' = "heartbeat"
    /\ store' = save_json(IF store[FREE_STATE_PATH] = NoFile
                          THEN save_json(store, FREE_STATE_PATH,
                                         JList(free_top3))
                          ELSE store,
                          PAID_STATE_PATH, JList(paid_top1))
    /\ UNCHANGED <<clock, prevs, latests, beat, sent, tg, hist, exit_code, io>>

\* lines 421-423
SaveAppStore ==
    /\ pc = "save"
    /\ pc' = "heartbeat"
    /\ store' = save_json(save_json(store, FREE_STATE_PATH, JList(free_top3)),
                          PAID_STATE_PATH, JList(paid_top1))
    /\ UNCHANGED <<clock, prevs, latests, beat, sent, tg, hist, exit_code, io>>

\* the interval compared with > instead of >=
HeartbeatDue_Strict(last, t) == last = NoTime \/ t - last > HEARTBEAT_INTERVAL

\* line 433
HeartbeatDue(last, t) == last = NoTime \/ t - last >= HEARTBEAT_INTERVAL

\* line 134; a line per item
format_ranked_list(items) ==
    [i \in 1..Len(items) |-> <<items[i].rank, ".", items[i].name>>]

\* lines 191-202
format_tsa(tsa) ==
    IF ~IsDict(tsa) THEN [label |-> "TSA", line |-> "(no data yet)"]
    ELSE IF Get(tsa, "date") = "" \/ "passengers" \notin DOMAIN tsa
    THEN [label |-> "TSA", line |-> "(invalid data)"]
    ELSE [label |-> "TSA", line |-> "passengers",
          date |-> tsa.date, passengers |-> tsa.passengers]

\* lines 256-265
format_approval(label, a) ==
    IF ~IsDict(a) THEN [label |-> label, line |-> "(no data yet)"]
    ELSE IF Get(a, "approval") = ""
    THEN [label |-> label, line |-> "(invalid data)"]
    ELSE IF Get(a, "row_key") # ""
    THEN [label |-> label, line |-> "(latest: key)",
          val |-> a.approval, key |-> a.row_key]
    ELSE [label |-> label, line |-> "(latest)", val |-> a.approval]

\* variant: only what this run extracted is shown
ForHeartbeat_ThisRunOnly(latest, prev) == latest

\* lines 429-431, `latest if latest else prev`
ForHeartbeat(latest, prev) == IF ~IsNone(latest) THEN latest ELSE prev

\* lines 434-449
HeartbeatText ==
    [free     |-> format_ranked_list(free_top3),
     paid     |-> format_ranked_list(paid_top1),
     tsa      |-> format_tsa(ForHeartbeat(tsa_latest, prev_tsa)),
     approval |-> format_approval("Approval",
                      ForHeartbeat(approval_latest, prev_approval)),
     trump    |-> format_approval("Trump Approval",
                      ForHeartbeat(trump_approval_latest,
                                   prev_trump_approval))]

\* the timestamp saved only when the heartbeat was delivered
Heartbeat_SaveIfDelivered ==
    /\ pc = "heartbeat"
    /\ pc' = "alert_free"
    /\ now' = clock
    /\ last_heartbeat' = load_last_heartbeat(store)
    /\ IF HeartbeatDue(last_heartbeat', now')
       THEN /\ heartbeat' = HeartbeatText
            /\ send_telegram("heartbeat")
            /\ store' = IF tg' = "delivered"
                        THEN save_last_heartbeat(store, now')
                        ELSE store
       ELSE /\ no_send
            /\ UNCHANGED <<store, heartbeat>>
    /\ UNCHANGED <<clock, prevs, latests, exit_code, io>>

\* lines 425-454
Heartbeat ==
    /\ pc = "heartbeat"
    /\ pc' = "alert_free"
    /\ now' = clock
    /\ last_heartbeat' = load_last_heartbeat(store)
    /\ IF HeartbeatDue(last_heartbeat', now')
       THEN /\ heartbeat' = HeartbeatText
            /\ send_telegram("heartbeat")
            /\ store' = save_last_heartbeat(store, now')
       ELSE /\ no_send
            /\ UNCHANGED <<store, heartbeat>>
    /\ UNCHANGED <<clock, prevs, latests, exit_code, io>>

\* lines 457-469
AlertFree ==
    /\ pc = "alert_free"
    /\ pc' = "alert_paid"
    /\ IF RankedChanged(prev_free, free_top3)
       THEN send_telegram("free") ELSE no_send
    /\ UNCHANGED <<store, clock, prevs, latests, beat, exit_code, io>>

\* lines 471-483
AlertPaid ==
    /\ pc = "alert_paid"
    /\ pc' = "alert_tsa"
    /\ IF RankedChanged(prev_paid, paid_top1)
       THEN send_telegram("paid") ELSE no_send
    /\ UNCHANGED <<store, clock, prevs, latests, beat, exit_code, io>>

\* an exception of the send leaves main(): exit status 1
AlertTsa_RaiseOnException ==
    /\ pc = "alert_tsa"
    /\ IF TsaChanged(prev_tsa, tsa_latest)
       THEN send_telegram("tsa") ELSE no_send
    /\ pc' = IF tg' = "exception" THEN "done" ELSE "alert_approval"
    /\ exit_code' = IF tg' = "exception" THEN 1 ELSE exit_code
    /\ UNCHANGED <<store, clock, prevs, latests, beat, io>>

\* no change alert in a run that sent a heartbeat
AlertTsa_QuietAfterHeartbeat ==
    /\ pc = "alert_tsa"
    /\ pc' = "alert_approval"
    /\ IF TsaChanged(prev_tsa, tsa_latest) /\ "heartbeat" \notin sent
       THEN send_telegram("tsa") ELSE no_send
    /\ UNCHANGED <<store, clock, prevs, latests, beat, exit_code, io>>

\* lines 485-501
AlertTsa ==
    /\ pc = "alert_tsa"
    /\ pc' = "alert_approval"
    /\ IF TsaChanged(prev_tsa, tsa_latest)
       THEN send_telegram("tsa") ELSE no_send
    /\ UNCHANGED <<store, clock, prevs, latests, beat, exit_code, io>>

\* line 504, maybe_send_approval_alert("Approval", ...)
AlertApproval ==
    /\ pc = "alert_approval"
    /\ pc' = "alert_trump"
    /\ IF ApprovalChanged(prev_approval, approval_latest)
       THEN send_telegram("approval") ELSE no_send
    /\ UNCHANGED <<store, clock, prevs, latests, beat, exit_code, io>>

\* lines 505-507, maybe_send_approval_alert("Trump", ...) and return 0
AlertTrump ==
    /\ pc = "alert_trump"
    /\ pc' = "done"
    /\ exit_code' = 0
    /\ IF ApprovalChanged(prev_trump_approval, trump_approval_latest)
       THEN send_telegram("trump") ELSE no_send
    /\ UNCHANGED <<store, clock, prevs, latests, beat, io>>

\* what a completed run adds to the history
Latest(k) ==
    CASE k = "free"     -> JList(free_top3)
      [] k = "paid"     -> JList(paid_top1)
      [] k = "tsa"      -> tsa_latest
      [] k = "approval" -> approval_latest
      [] k = "trump"    -> trump_approval_latest

Commit(h) ==
    IF h.mode = "off" THEN h
    ELSE [mode   |-> h.mode,
          fact   |-> [k \in Kinds |->
                        IF IsNone(Latest(k)) THEN h.fact[k] ELSE Latest(k)],
          stale  |-> IF h.mode # "gaps" THEN {}
                     ELSE {k \in Kinds :
                             IsNone(Latest(k)) /\ ~IsNone(h.fact[k])},
          lost   |-> h.lost]

\* lines 510-511: the process ends; only the state files remain
Exit ==
    /\ pc = "done"
    /\ pc' = "idle"
    /\ prev_free' = None /\ prev_paid' = None /\ prev_tsa' = None
    /\ prev_approval' = None /\ prev_trump_approval' = None
    /\ free_top3' = <<>> /\ paid_top1' = <<>>
    /\ tsa_latest' = None /\ approval_latest' = None
    /\ trump_approval_latest' = None
    /\ now' = NoTime /\ last_heartbeat' = NoTime /\ heartbeat' = None
    /\ sent' = {} /\ tg' = "none"
    /\ hist' = IF exit_code = 0 THEN Commit(hist) ELSE hist
    /\ exit_code' = Running
    /\ UNCHANGED <<store, clock, io>>

Next ==
    \/ Tick \/ Start \/ FetchFree \/ FetchPaid \/ FetchTsa \/ FetchApproval
    \/ FetchTrumpApproval \/ SaveAppStore \/ Heartbeat \/ AlertFree
    \/ AlertPaid \/ AlertTsa \/ AlertApproval \/ AlertTrump \/ Exit

Spec == Init /\ [][Next]_vars

\* The runs of main() that follow one another within the same hour, with
\* the history of the completed runs recorded: the gaps of the optional
\* sources (SpecGaps) or the undelivered alerts (SpecLosses).
InitHistory ==
    /\ store = [p \in Paths |-> NoFile]
    /\ clock = 0
    /\ pc = "idle"
    /\ prev_free = None /\ prev_paid = None /\ prev_tsa = None
    /\ prev_approval = None /\ prev_trump_approval = None
    /\ free_top3 = <<>> /\ paid_top1 = <<>>
    /\ tsa_latest = None /\ approval_latest = None
    /\ trump_approval_latest = None
    /\ now = NoTime /\ last_heartbeat = NoTime /\ heartbeat = None
    /\ sent = {} /\ tg = "none"
    /\ exit_code = Running
    /\ input = None /\ result = None

NextHistory ==
    \/ Start \/ FetchFree \/ FetchPaid \/ FetchTsa \/ FetchApproval
    \/ FetchTrumpApproval \/ SaveAppStore \/ Heartbeat \/ AlertFree
    \/ AlertPaid \/ AlertTsa \/ AlertApproval \/ AlertTrump \/ Exit

InitGaps ==
    /\ InitHistory
    /\ hist = [NoHistory EXCEPT !.mode = "gaps"]

SpecGaps == InitGaps /\ [][NextHistory]_vars

InitLosses ==
    /\ InitHistory
    /\ hist = [NoHistory EXCEPT !.mode = "losses"]

SpecLosses == InitLosses /\ [][NextHistory]_vars

----------------------------------------------------------------------------
(* Runs of parse_tsa_latest alone, over every page of up to MaxTables      *)
(* tables of up to MaxRows data rows.  A table is drawn as a shape (does   *)
(* its header carry the keyword, which of its data rows parse) and written *)
(* out so that a parsable row tells its table by its date and its row by   *)
(* its passenger count.                                                    *)

SeqsUpTo(S, n) == UNION {[1..k -> S] : k \in 0..n}

TableShapes == [dated : BOOLEAN, rows : SeqsUpTo(BOOLEAN, MaxRows)]

TableDate(t) == <<"1/2/2024", "1/3/2024", "1/4/2024">>[t]

RowCount(i) == <<"1,000", "2,000", "3,000", "4,000", "5,000">>[i]

\* an unparsable row: no date in the first cell, no number in the
\* second, or a single cell
BadRow(t, i) ==
    CASE i % 3 = 1 -> <<"n/a", RowCount(i)>>
      [] i % 3 = 2 -> <<TableDate(t), "n/a">>
      [] OTHER     -> <<TableDate(t)>>

TableText(shape, t) ==
    <<IF shape.dated THEN DateHeader ELSE OtherHeader>> \o
    [i \in 1..Len(shape.rows) |->
        IF shape.rows[i] THEN <<TableDate(t), RowCount(i)>>
        ELSE BadRow(t, i)]

PageText(shapes) == [t \in 1..Len(shapes) |-> TableText(shapes[t], t)]

TsaInputs == {PageText(sh) : sh \in SeqsUpTo(TableShapes, MaxTables)}

ExtractorIdle ==
    /\ store = [p \in Paths |-> NoFile]
    /\ clock = 0
    /\ prev_free = None /\ prev_paid = None /\ prev_tsa = None
    /\ prev_approval = None /\ prev_trump_approval = None
    /\ free_top3 = <<>> /\ paid_top1 = <<>>
    /\ tsa_latest = None /\ approval_latest = None
    /\ trump_approval_latest = None
    /\ now = NoTime /\ last_heartbeat = NoTime /\ heartbeat = None
    /\ sent = {} /\ tg = "none" /\ hist = NoHistory
    /\ exit_code = Running

InitTsa ==
    /\ ExtractorIdle
    /\ pc = "parse_tsa"
    /\ input \in TsaInputs
    /\ result = None

\* result = parse_tsa_latest(input)
ParseTsa ==
    /\ pc = "parse_tsa"
    /\ pc' = "parsed_tsa"
    /\ result' = parse_tsa_latest(input)
    /\ UNCHANGED <<store, clock, prevs, latests, beat, sent, tg, hist,
                   exit_code, input>>

NextTsa == ParseTsa

SpecTsa == InitTsa /\ [][NextTsa]_vars

----------------------------------------------------------------------------
(* Properties of parse_tsa_latest *)

\* the tables of a page whose first row carries the header keyword
MatchingTables(page) ==
    {t \in 1..Len(page) :
        Len(page[t]) >= 1 /\ \E i \in 1..Len(page[t][1]) :
                                ContainsDate(page[t][1][i])}

\* row r of table t parses as a date and a count
RowParses(page, t, r) ==
    /\ Len(page[t][r]) >= 2
    /\ _parse_tsa_date(page[t][r][1]) # ""
    /\ _parse_int(page[t][r][2]) # NoInt

\* the rows of table t inside the scan window that parse
WindowRows(page, t) ==
    {r \in 2..Min(1 + ScanWindow, Len(page[t])) : RowParses(page, t, r)}

FactOfRow(page, t, r) ==
    [date |-> _parse_tsa_date(page[t][r][1]),
     passengers |-> _parse_int(page[t][r][2])]

MinOf(S) == CHOOSE x \in S : \A y \in S : x <= y

\* C10: the extractor skips every table whose first row lacks the header
\* keyword and uses only the first table that carries it: the result is the
\* first parsable row in that table's scan window, or not found when that
\* window has none (or no table matches); it never comes from a later table.
C10_OnlyFirstMatchingTable ==
    pc = "parsed_tsa" =>
        LET m == MatchingTables(input)
        IN  IF m = {} THEN result = None
            ELSE LET t == MinOf(m)
                 IN  IF WindowRows(input, t) = {} THEN result = None
                     ELSE result = FactOfRow(input, t,
                                             MinOf(WindowRows(input, t)))

\* the part of C10 the code keeps: the result is the first parsable window
\* row of the first keyword table that has one
TsaFirstTableWithRow ==
    pc = "parsed_tsa" =>
        LET m == {t \in MatchingTables(input) : WindowRows(input, t) # {}}
        IN  IF m = {} THEN result = None
            ELSE result = FactOfRow(input, MinOf(m),
                                    MinOf(WindowRows(input, MinOf(m))))

----------------------------------------------------------------------------
(* Runs of parse_chart_topN alone, over every page of up to MaxAnchors     *)
(* anchors and every wanted-rank list main() can pass: main() passes       *)
(* [1, 2, 3] and [1] (lines 370, 377), and ranks is drawn from the         *)
(* ascending duplicate-free lists over 1..3.  An anchor carries any rank   *)
(* 0..3 (0: its text starts with no number) and is a chart entry with a    *)
(* heading, one with an empty heading, one with text only, or a link that  *)
(* is not an app link.                                                     *)

ChartRanks == 1..3

ChartAnchors ==
    UNION {{HeadAnchor(r, <<"Alpha">>), HeadAnchor(r, <<>>),
            TextAnchor(r, <<"Gamma", "View">>), StoryLink(r, <<"Beta">>)} :
           r \in {0} \cup ChartRanks}

RECURSIVE ChartPages(_)
ChartPages(k) ==
    IF k = 0 THEN {<<>>}
    ELSE {Append(page, a) : page \in ChartPages(k - 1), a \in ChartAnchors}

WantedRanks ==
    {ranks \in SeqsUpTo(ChartRanks, 3) :
        \A i \in 1..Len(ranks), j \in 1..Len(ranks) :
            i < j => ranks[i] < ranks[j]}

InitChart ==
    /\ ExtractorIdle
    /\ pc = "parse_chart"
    /\ \E k \in 0..MaxAnchors, ranks \in WantedRanks :
          \E html \in ChartPages(k) :
              input = [html |-> html, ranks |-> ranks]
    /\ result = None

\* result = parse_chart_topN(html, ranks)
ParseChart ==
    /\ pc = "parse_chart"
    /\ pc' = "parsed_chart"
    /\ result' = parse_chart_topN(input.html, input.ranks)
    /\ UNCHANGED <<store, clock, prevs, latests, beat, sent, tg, hist,
                   exit_code, input>>

NextChart == ParseChart

SpecChart == InitChart /\ [][NextChart]_vars

----------------------------------------------------------------------------
(* Properties of parse_chart_topN *)

----------------------------------------------------------------------------
(* Runs of parse_latest_approval_from_csv alone, over every CSV text of a  *)
(* header drawn from CsvHeaders and up to MaxCsvRows data rows of one or   *)
(* two cells.  The rows are the ones csv.DictReader yields (it drops blank *)
(* lines); the cells of row i are empty, blank, CellValue(i) or            *)
(* CellKey(i), so that a returned cell tells its row and its column.       *)

CsvHeaders ==
    {<<"Approval">>, <<"Date", "Approval">>, <<" Approval ", "Date ">>,
     <<"value", "Date">>, <<"modeldate", "approve">>,
     <<"<!DOCTYPE html>">>, <<"<!DOCTYPE html>", "approval">>,
     <<" <html>", "approval">>}

CellValue(i) == <<"45", " 46 ", "47", "48">>[i]

CellKey(i) == <<"1/2/2024", "1/3/2024", "1/4/2024", "1/5/2024">>[i]

CsvCells(i) == {"", CellValue(i), CellKey(i)}

\* two cells each empty, a value or a key; or a blank cell beside a key; or
\* a single cell
CsvRowsAt(i) ==
    {<<a, b>> : a \in CsvCells(i), b \in CsvCells(i)} \cup
    {<<" ", CellKey(i)>>, <<CellKey(i), " ">>, <<CellValue(i)>>}

RECURSIVE CsvRowLists(_)
CsvRowLists(k) ==
    IF k = 0 THEN {<<>>}
    ELSE {Append(rows, row) : rows \in CsvRowLists(k - 1),
                              row \in CsvRowsAt(k)}

\* an empty file has no header and no rows
CsvInputs ==
    {[fieldnames |-> <<>>, rows |-> <<>>]} \cup
    {[fieldnames |-> h, rows |-> rows] :
        h \in CsvHeaders,
        rows \in UNION {CsvRowLists(k) : k \in 0..MaxCsvRows}}

InitCsv ==
    /\ ExtractorIdle
    /\ pc = "parse_csv"
    /\ input \in CsvInputs
    /\ result = None

\* result = parse_latest_approval_from_csv(input)
ParseCsv ==
    /\ pc = "parse_csv"
    /\ pc' = "parsed_csv"
    /\ result' = parse_latest_approval_from_csv(input)
    /\ UNCHANGED <<store, clock, prevs, latests, beat, sent, tg, hist,
                   exit_code, input>>

NextCsv == ParseCsv

SpecCsv == InitCsv /\ [][NextCsv]_vars

----------------------------------------------------------------------------
(* Properties of parse_latest_approval_from_csv *)

MaxOf(S) == CHOOSE x \in S : \A y \in S : y <= x

\* the first column whose header, trimmed and lower-cased, is one of names
HeaderCol(fieldnames, names) ==
    LET hits == {j \in 1..Len(fieldnames) :
                    Lower(Strip(fieldnames[j])) \in names}
    IN  IF hits = {} THEN 0 ELSE MinOf(hits)

\* the trimmed text of a row's cell; empty when the column or cell is absent
Trimmed(row, col) ==
    IF col = 0 \/ col > Len(row) THEN "" ELSE Strip(row[col])

\* the rows with a non-empty cell in column col
ValuedRows(csv, col) ==
    {i \in 1..Len(csv.rows) : Trimmed(csv.rows[i], col) # ""}

KeyNames == {"date", "day", "week", "month", "timestamp", "time"}

\* the content starts, after trimming and ignoring case, with a doctype
\* declaration or an html tag
MarkupLeading(csv) ==
    /\ csv.fieldnames # <<>>
    /\ Lower(Strip(csv.fieldnames[1])) \in {"<!doctype html>", "<html>"}

\* C11: CSV content whose leading text is a doctype declaration or an html
\* tag gives 'not found', whether or not it has a target column and
\* non-empty values.
C11_MarkupRejected ==
    pc = "parsed_csv" /\ MarkupLeading(input) => IsNone(result)

\* C12: for a CSV with a target column the result is the last row, in file
\* order, whose target value is non-empty after trimming, or 'not found'
\* when there is none; its row_key is the key-column value of that row when
\* a key column exists and that value is non-empty, else row_N with N the
\* 1-based position of the row.
C12_LastValuedRow ==
    pc = "parsed_csv" /\ HeaderCol(input.fieldnames, {"approval"}) # 0 =>
        LET target == HeaderCol(input.fieldnames, {"approval"})
            keycol == HeaderCol(input.fieldnames, KeyNames)
            valued == ValuedRows(input, target)
        IN  IF valued = {} THEN IsNone(result)
            ELSE LET n == MaxOf(valued)
                     key == Trimmed(input.rows[n], keycol)
                 IN  result =
                       [row_key  |-> IF key # "" THEN key ELSE RowLabel(n),
                        approval |-> Trimmed(input.rows[n], target)]

\* a keyed row is returned from under two trailing rows without a value
C12_Witness ==
    /\ pc = "parsed_csv"
    /\ Len(input.rows) = 3
    /\ ~IsNone(result)
    /\ result.row_key = CellKey(1)
    /\ result.approval = "45"

\* C19 as stated: the second approval feed yields a fact only from a row on
\* which both the 'approve' value column and the 'modeldate' key column are
\* non-empty; a row with a value but an empty key is never returned.
C19_BothColumnsRequired ==
    pc = "parsed_csv" /\ ~IsNone(result) =>
        LET value == HeaderCol(input.fieldnames, {"approve"})
            key   == HeaderCol(input.fieldnames, {"modeldate"})
        IN  \E i \in 1..Len(input.rows) :
                /\ Trimmed(input.rows[i], value) # ""
                /\ Trimmed(input.rows[i], key) # ""
                /\ result = [row_key  |-> Trimmed(input.rows[i], key),
                             approval |-> Trimmed(input.rows[i], value)]

\* C19 amended: the second approval feed is read by the extractor of the
\* first (main() line 411): without an 'approval' column it yields nothing,
\* whatever 'approve' and 'modeldate' columns hold; with one, the last row
\* that has a value is returned even when its key cell is empty or no key
\* column exists, labelled row_N by its position.
C19_UnkeyedRowReturned ==
    pc = "parsed_csv" =>
        LET target == HeaderCol(input.fieldnames, {"approval"})
            keycol == HeaderCol(input.fieldnames, KeyNames)
        IN  /\ target = 0 => IsNone(result)
            /\ \A n \in ValuedRows(input, target) :
                  /\ ValuedRows(input, target) \cap (n + 1)..Len(input.rows)
                        = {}
                  /\ Trimmed(input.rows[n], keycol) = ""
                  => /\ ~IsNone(result)
                     /\ result.row_key = RowLabel(n)

\* the second row has a value and an empty key cell under a key column, and
\* is returned as row_2
C19_Witness ==
    /\ pc = "parsed_csv"
    /\ HeaderCol(input.fieldnames, KeyNames) # 0
    /\ ~IsNone(result)
    /\ result.row_key = "row_2"
    /\ result.approval = "46"

----------------------------------------------------------------------------
(* Runs of the change-alert section of main() (lines 456-507) alone, over  *)
(* prior records as a state file may hold them (written by this or an      *)
(* earlier revision of the monitor: any list of items, dicts with empty or *)
(* missing fields) and current facts as the extractors return them.  One   *)
(* source is drawn at a time; the others are at their first run.           *)

Names == {<<"Alpha">>, <<"Beta">>}

Items == [rank : 1..3, name : Names]

\* the snapshot listing the given names at ranks 1, 2, ...
Snapshot(names) == [i \in 1..Len(names) |-> [rank |-> i, name |-> names[i]]]

PriorSnapshots == {None} \cup {JList(sq) : sq \in SeqsUpTo(Items, MaxPrior)}

CurrentFree == {Snapshot(n) : n \in [1..3 -> Names]}

CurrentPaid == {Snapshot(n) : n \in [1..1 -> Names]}

IsoDates == {"2024-01-02", "2024-01-03"}

Counts == {2000, 3000}

PriorTsa ==
    {None, JList(<<>>), [passengers |-> 2000]}
        \cup [date : IsoDates \cup {""}, passengers : Counts]

CurrentTsa == {None} \cup [date : IsoDates, passengers : Counts]

PriorApproval ==
    {None, JList(<<>>), [approval |-> "45"], [row_key |-> "1/2/2024"]}
        \cup [row_key : {"", "1/2/2024", "1/3/2024"},
              approval : {"", "45", "46"}]

CurrentApproval ==
    {None} \cup [row_key : {"1/2/2024", "1/3/2024", "row_1"},
                 approval : {"45", "46"}]

InitDetect ==
    /\ store = [p \in Paths |-> NoFile]
    /\ clock = 0
    /\ pc = "alert_free"
    /\ now = 0 /\ last_heartbeat = 0 /\ heartbeat = None
    /\ sent = {} /\ tg = "none" /\ hist = NoHistory
    /\ exit_code = Running
    /\ input = None /\ result = None
    /\ \/ /\ prev_free \in PriorSnapshots /\ free_top3 \in CurrentFree
          /\ prev_paid = None /\ paid_top1 \in CurrentPaid
          /\ prev_tsa = None /\ tsa_latest = None
          /\ prev_approval = None /\ approval_latest = None
          /\ prev_trump_approval = None /\ trump_approval_latest = None
       \/ /\ prev_free = None /\ free_top3 \in CurrentFree
          /\ prev_paid \in PriorSnapshots /\ paid_top1 \in CurrentPaid
          /\ prev_tsa = None /\ tsa_latest = None
          /\ prev_approval = None /\ approval_latest = None
          /\ prev_trump_approval = None /\ trump_approval_latest = None
       \/ /\ prev_free = None /\ free_top3 = Snapshot(<<<<"Alpha">>,
                                      <<"Alpha">>, <<"Alpha">>>>)
          /\ prev_paid = None /\ paid_top1 = Snapshot(<<<<"Alpha">>>>)
          /\ \/ /\ prev_tsa \in PriorTsa /\ tsa_latest \in CurrentTsa
                /\ prev_approval = None /\ approval_latest = None
                /\ prev_trump_approval = None
                /\ trump_approval_latest = None
             \/ /\ prev_tsa = None /\ tsa_latest = None
                /\ prev_approval \in PriorApproval
                /\ approval_latest \in CurrentApproval
                /\ prev_trump_approval = None
                /\ trump_approval_latest = None
             \/ /\ prev_tsa = None /\ tsa_latest = None
                /\ prev_approval = None /\ approval_latest = None
                /\ prev_trump_approval \in PriorApproval
                /\ trump_approval_latest \in CurrentApproval

NextDetect ==
    AlertFree \/ AlertPaid \/ AlertTsa \/ AlertApproval \/ AlertTrump

SpecDetect == InitDetect /\ [][NextDetect]_vars

----------------------------------------------------------------------------
(* Properties of the change rules *)

\* identical ordered sequences of (rank, name)
SameSequence(a, b) ==
    /\ Len(a) = Len(b)
    /\ \A i \in 1..Len(a) : a[i].rank = b[i].rank /\ a[i].name = b[i].name

\* C7: for a ranked-list source with a prior snapshot A and a current
\* snapshot B, no change alert is sent iff A and B are identical ordered
\* sequences of (rank, name); a difference in rank, name or length alerts.
C7_RankedAlertIffSequencesDiffer ==
    pc = "done" =>
        /\ IsList(prev_free) =>
              ("free" \notin sent <=> SameSequence(prev_free.list, free_top3))
        /\ IsList(prev_paid) =>
              ("paid" \notin sent <=> SameSequence(prev_paid.list, paid_top1))

\* a prior top three with the current names in a different rank order of
\* the items was alerted
C7_Witness ==
    /\ pc = "done"
    /\ IsList(prev_free)
    /\ Len(prev_free.list) = 3
    /\ \A i \in 1..3 : prev_free.list[i].name = free_top3[i].name
    /\ \E i \in 1..3 : prev_free.list[i].rank # free_top3[i].rank
    /\ "free" \in sent

\* C8: a TSA change alert is sent iff a prior and a current record exist,
\* both dates are non-empty, and the dates differ; a difference in the
\* passenger count alone sends none.
C8_TsaAlertIffDatesDiffer ==
    pc = "done" =>
        ("tsa" \in sent <=>
            /\ IsDict(prev_tsa)
            /\ ~IsNone(tsa_latest)
            /\ "date" \in DOMAIN prev_tsa
            /\ prev_tsa.date # ""
            /\ tsa_latest.date # ""
            /\ prev_tsa.date # tsa_latest.date)

\* only the passenger count differs from the prior record: no alert
C8_Witness ==
    /\ pc = "done"
    /\ IsDict(prev_tsa)
    /\ ~IsNone(tsa_latest)
    /\ "date" \in DOMAIN prev_tsa
    /\ prev_tsa.date = tsa_latest.date
    /\ prev_tsa.passengers # tsa_latest.passengers
    /\ "tsa" \notin sent

\* the CSV rule on one field: both sides non-empty and different
FieldChanged(prev, latest, f) ==
    /\ f \in DOMAIN prev
    /\ prev[f] # ""
    /\ latest[f] # ""
    /\ prev[f] # latest[f]

\* C9: for a CSV source with a prior and a current fact, an alert is sent
\* iff the row keys are both non-empty and differ or the values are both
\* non-empty and differ; empty against non-empty alone never alerts.
C9_ApprovalAlertIffNonEmptyFieldDiffers ==
    pc = "done" =>
        /\ IsDict(prev_approval) /\ ~IsNone(approval_latest) =>
              ("approval" \in sent <=>
                  \/ FieldChanged(prev_approval, approval_latest, "row_key")
                  \/ FieldChanged(prev_approval, approval_latest, "approval"))
        /\ IsDict(prev_trump_approval) /\ ~IsNone(trump_approval_latest) =>
              ("trump" \in sent <=>
                  \/ FieldChanged(prev_trump_approval, trump_approval_latest,
                                  "row_key")
                  \/ FieldChanged(prev_trump_approval, trump_approval_latest,
                                  "approval"))

\* the prior row key is empty, the current one is not, the values agree:
\* no alert
C9_Witness ==
    /\ pc = "done"
    /\ IsDict(prev_approval)
    /\ ~IsNone(approval_latest)
    /\ DOMAIN prev_approval = {"row_key", "approval"}
    /\ prev_approval.row_key = ""
    /\ approval_latest.row_key # ""
    /\ prev_approval.approval = approval_latest.approval
    /\ "approval" \notin sent

----------------------------------------------------------------------------
(* Properties of the runs of main() *)

FileOf(v) == [text |-> v]

HeartbeatFile(t) == FileOf([ts |-> isoformat(t)])

Optional ==
    { <<TSA_STATE_PATH, prev_tsa, tsa_latest>>,
      <<APPROVAL_STATE_PATH, prev_approval, approval_latest>>,
      <<TRUMP_APPROVAL_STATE_PATH, prev_trump_approval,
        trump_approval_latest>> }

MandatoryOk == Len(free_top3) = 3 /\ Len(paid_top1) = 1

\* C1: a source's record is overwritten in a run only if its extraction
\* succeeded in that run: after a run in which the fetch or parse of a
\* source failed its record is the one the run started with, and a
\* not-found result is never written to the store.
C1_RecordKeptUnlessExtracted ==
    /\ \A p \in Paths : store[p] # FileOf(None)
    /\ pc = "done" =>
          /\ \A o \in Optional :
                IsNone(o[3]) => load_json(store, o[1]) = o[2]
          /\ ~MandatoryOk =>
                /\ load_json(store, FREE_STATE_PATH) = prev_free
                /\ load_json(store, PAID_STATE_PATH) = prev_paid

\* a completed run whose TSA extraction failed kept the stored TSA record
C1_Witness ==
    /\ pc = "done"
    /\ exit_code = 0
    /\ IsNone(tsa_latest)
    /\ ~IsNone(prev_tsa)
    /\ store[TSA_STATE_PATH] = FileOf(prev_tsa)
    /\ ~IsNone(approval_latest)
    /\ approval_latest # prev_approval

\* C2: in a run that found no state file for a source, no change alert is
\* sent for that source, whatever was extracted, for every kind of fact.
C2_NoAlertWithoutPrior ==
    /\ "free" \in sent => ~IsNone(prev_free)
    /\ "paid" \in sent => ~IsNone(prev_paid)
    /\ "tsa" \in sent => ~IsNone(prev_tsa)
    /\ "approval" \in sent => ~IsNone(prev_approval)
    /\ "trump" \in sent => ~IsNone(prev_trump_approval)

\* a first run that extracted every fact has ended with no alert
C2_Witness ==
    /\ pc = "done"
    /\ exit_code = 0
    /\ IsNone(prev_free) /\ IsNone(prev_paid) /\ IsNone(prev_tsa)
    /\ IsNone(prev_approval) /\ IsNone(prev_trump_approval)
    /\ ~IsNone(tsa_latest) /\ ~IsNone(approval_latest)
    /\ ~IsNone(trump_approval_latest)
    /\ sent = {"heartbeat"}

\* C3: a run that reaches the heartbeat step sends a heartbeat iff no
\* timestamp is stored or at least 4 hours have passed since the stored
\* one, and two successive heartbeat timestamps are at least 4 hours apart.
C3_HeartbeatCadence ==
    [][/\ pc = "heartbeat" /\ pc' # "heartbeat" =>
            ("heartbeat" \in sent' <=>
                \/ store[HEARTBEAT_STATE_PATH] = NoFile
                \/ \E t \in 0..MaxTime :
                      /\ store[HEARTBEAT_STATE_PATH] = HeartbeatFile(t)
                      /\ clock - t >= 4)
       /\ ( /\ store'[HEARTBEAT_STATE_PATH] # store[HEARTBEAT_STATE_PATH]
            /\ store[HEARTBEAT_STATE_PATH] # NoFile ) =>
            \E t, u \in 0..MaxTime :
                /\ store[HEARTBEAT_STATE_PATH] = HeartbeatFile(t)
                /\ store'[HEARTBEAT_STATE_PATH] = HeartbeatFile(u)
                /\ u - t >= 4
      ]_vars

\* a heartbeat was sent exactly 4 hours after the stored one
C3_Witness ==
    /\ "heartbeat" \in sent
    /\ last_heartbeat # NoTime
    /\ now - last_heartbeat = 4

\* C4 as stated: in a run where the heartbeat message is not delivered
\* (send skipped, non-success response or exception) the stored heartbeat
\* timestamp is unchanged.
C4_KeptUnlessDelivered ==
    (pc = "alert_free" /\ tg # "delivered") =>
        load_last_heartbeat(store) = last_heartbeat

\* C4 amended: the heartbeat record is overwritten exactly in the step
\* that hands a heartbeat to send_telegram, with that run's time and
\* whatever the delivery outcome; no other step changes it.
C4_RecordFollowsDispatch ==
    [][LET dispatched == "heartbeat" \in sent' /\ "heartbeat" \notin sent
       IN  /\ dispatched =>
                store'[HEARTBEAT_STATE_PATH] = HeartbeatFile(clock)
           /\ ~dispatched =>
                store'[HEARTBEAT_STATE_PATH] = store[HEARTBEAT_STATE_PATH]
      ]_vars

\* a heartbeat that got a non-success response replaced an older timestamp
C4_Witness ==
    /\ pc = "alert_free"
    /\ "heartbeat" \in sent
    /\ tg = "failed"
    /\ last_heartbeat # NoTime
    /\ store[HEARTBEAT_STATE_PATH] = HeartbeatFile(now)
    /\ now # last_heartbeat

\* C5: when both ranked-list sources succeed the run ends with exit code 0
\* having stored both ranked lists and the fact of every optional source
\* that extracted, whichever optional sources failed.
C5_OptionalFailureIsolated ==
    (pc = "done" /\ MandatoryOk) =>
        /\ exit_code = 0
        /\ store[FREE_STATE_PATH] = FileOf(JList(free_top3))
        /\ store[PAID_STATE_PATH] = FileOf(JList(paid_top1))
        /\ \A o \in Optional : ~IsNone(o[3]) => store[o[1]] = FileOf(o[3])

\* the TSA extraction failed and both CSV facts were stored, exit code 0
C5_Witness ==
    /\ pc = "done"
    /\ exit_code = 0
    /\ MandatoryOk
    /\ IsNone(tsa_latest)
    /\ ~IsNone(approval_latest)
    /\ ~IsNone(trump_approval_latest)
    /\ store[APPROVAL_STATE_PATH] = FileOf(approval_latest)
    /\ store[TRUMP_APPROVAL_STATE_PATH] = FileOf(trump_approval_latest)
    /\ store[APPROVAL_STATE_PATH] # FileOf(prev_approval)

\* C6: a run ends with exit code 1 when a ranked-list source failed (its
\* fetch raised, or it yielded fewer than 3 items for top free or fewer
\* than 1 for top paid) and with exit code 0 in every other case.
C6_ExitCode ==
    pc = "done" =>
        exit_code = IF Len(free_top3) < 3 \/ Len(paid_top1) < 1 THEN 1 ELSE 0

\* a run ended with exit code 1 on a top-free page with two items
C6_Witness ==
    /\ pc = "done"
    /\ exit_code = 1
    /\ Len(free_top3) = 2

\* the position that follows p in a run that goes on
StepAfter(p) ==
    CASE p = "heartbeat"      -> "alert_free"
      [] p = "alert_free"     -> "alert_paid"
      [] p = "alert_paid"     -> "alert_tsa"
      [] p = "alert_tsa"      -> "alert_approval"
      [] p = "alert_approval" -> "alert_trump"
      [] p = "alert_trump"    -> "done"

\* C14: the delivery outcome of a message never aborts the run or affects
\* persisted state: whichever way the send ends (delivered, skipped,
\* non-success response, exception), the step that hands a message to
\* send_telegram goes on to the same next step with the same exit code and
\* the same state files, all of them given by the state before the send.
C14_OutcomeNeverMatters ==
    [][(sent' # sent /\ sent' # {}) =>
          /\ tg' \in SendOutcomes
          /\ pc' = StepAfter(pc)
          /\ exit_code' = IF pc = "alert_trump" THEN 0 ELSE Running
          /\ store' = IF pc = "heartbeat"
                      THEN [store EXCEPT ![HEARTBEAT_STATE_PATH] =
                                            HeartbeatFile(clock)]
                      ELSE store
          /\ prevs' = prevs
          /\ latests' = latests
      ]_vars

\* the send of the TSA alert raised, and the run goes on with the stored
\* fact in place
C14_Witness ==
    /\ pc = "alert_approval"
    /\ "tsa" \in sent
    /\ tg = "exception"
    /\ exit_code = Running
    /\ store[TSA_STATE_PATH] = FileOf(tsa_latest)

\* C15: in every completed run a change alert is handed to send_telegram
\* for each source whose change rule reports a change, whether or not a
\* heartbeat was sent in that run.
C15_AlertForEveryChange ==
    (pc = "done" /\ exit_code = 0) =>
        /\ IsList(prev_free) /\ ~SameSequence(prev_free.list, free_top3)
              => "free" \in sent
        /\ IsList(prev_paid) /\ ~SameSequence(prev_paid.list, paid_top1)
              => "paid" \in sent
        /\ IsDict(prev_tsa) /\ ~IsNone(tsa_latest)
              /\ FieldChanged(prev_tsa, tsa_latest, "date")
              => "tsa" \in sent
        /\ IsDict(prev_approval) /\ ~IsNone(approval_latest)
              /\ ( \/ FieldChanged(prev_approval, approval_latest, "row_key")
                   \/ FieldChanged(prev_approval, approval_latest,
                                   "approval") )
              => "approval" \in sent
        /\ IsDict(prev_trump_approval) /\ ~IsNone(trump_approval_latest)
              /\ ( \/ FieldChanged(prev_trump_approval,
                                   trump_approval_latest, "row_key")
                   \/ FieldChanged(prev_trump_approval,
                                   trump_approval_latest, "approval") )
              => "trump" \in sent

\* a later run sent a heartbeat and, after it, the alert of a new TSA date
C15_Witness ==
    /\ pc = "done"
    /\ exit_code = 0
    /\ last_heartbeat # NoTime
    /\ "heartbeat" \in sent
    /\ IsDict(prev_tsa)
    /\ ~IsNone(tsa_latest)
    /\ prev_tsa.date # tsa_latest.date
    /\ "tsa" \in sent

\* C16: a run aborted by the failure of a ranked-list source is atomic: it
\* ends with exit code 1 from the top-free or the top-paid step only, and
\* no step up to there changes a state file (source record or heartbeat
\* timestamp) or sends a message.
C16_AbortChangesNothing ==
    [][/\ (pc # "done" /\ pc' = "done" /\ exit_code' = 1) =>
            pc \in {"free", "paid"}
       /\ pc \in {"idle", "free", "paid"} =>
            /\ store' = store
            /\ sent = {} /\ sent' = {}
            /\ heartbeat' = None
      ]_vars

\* a run aborted on the top-paid page after parsing a new top-free list:
\* the stored list and the stored heartbeat are the earlier ones
C16_Witness ==
    /\ pc = "done"
    /\ exit_code = 1
    /\ Len(free_top3) = 3
    /\ IsList(prev_free)
    /\ prev_free # JList(free_top3)
    /\ store[FREE_STATE_PATH] = FileOf(prev_free)
    /\ store[HEARTBEAT_STATE_PATH] # NoFile
    /\ sent = {}

\* C17: when the last completed run(s) failed to extract an optional
\* source that has a stored fact F, the next completed run that extracts
\* it compares against F: it alerts iff the new fact counts as changed
\* relative to F.
C17_ComparedAgainstKeptFact ==
    (pc = "done" /\ exit_code = 0) =>
        /\ "tsa" \in hist.stale /\ ~IsNone(tsa_latest) =>
              ("tsa" \in sent <=>
                  FieldChanged(hist.fact["tsa"], tsa_latest, "date"))
        /\ "approval" \in hist.stale /\ ~IsNone(approval_latest) =>
              ("approval" \in sent <=>
                  \/ FieldChanged(hist.fact["approval"], approval_latest,
                                  "row_key")
                  \/ FieldChanged(hist.fact["approval"], approval_latest,
                                  "approval"))
        /\ "trump" \in hist.stale /\ ~IsNone(trump_approval_latest) =>
              ("trump" \in sent <=>
                  \/ FieldChanged(hist.fact["trump"], trump_approval_latest,
                                  "row_key")
                  \/ FieldChanged(hist.fact["trump"], trump_approval_latest,
                                  "approval"))

\* the TSA extraction succeeds again after a failed run, with a date other
\* than the stored one, and the alert is sent
C17_Witness ==
    /\ pc = "done"
    /\ exit_code = 0
    /\ "tsa" \in hist.stale
    /\ ~IsNone(tsa_latest)
    /\ hist.fact["tsa"].date # tsa_latest.date
    /\ "tsa" \in sent

\* a heartbeat section shows the TSA fact f
ShowsTsa(section, f) ==
    /\ {"date", "passengers"} \subseteq DOMAIN section
    /\ section.date = f.date
    /\ section.passengers = f.passengers

\* a heartbeat section shows the CSV fact f
ShowsApproval(section, f) ==
    /\ {"val", "key"} \subseteq DOMAIN section
    /\ section.val = f.approval
    /\ section.key = f.row_key

\* C18: a heartbeat has a section for every source, and for each optional
\* source the section shows the fact extracted in this run if there is
\* one, else the fact the run loaded from the store, and reads 'no data
\* yet' only when there is neither.
C18_HeartbeatShowsLastKnown ==
    "heartbeat" \in sent =>
        /\ DOMAIN heartbeat = {"free", "paid", "tsa", "approval", "trump"}
        /\ IF ~IsNone(tsa_latest)
           THEN ShowsTsa(heartbeat.tsa, tsa_latest)
           ELSE IF ~IsNone(prev_tsa)
           THEN ShowsTsa(heartbeat.tsa, prev_tsa)
           ELSE heartbeat.tsa.line = "(no data yet)"
        /\ IF ~IsNone(approval_latest)
           THEN ShowsApproval(heartbeat.approval, approval_latest)
           ELSE IF ~IsNone(prev_approval)
           THEN ShowsApproval(heartbeat.approval, prev_approval)
           ELSE heartbeat.approval.line = "(no data yet)"
        /\ IF ~IsNone(trump_approval_latest)
           THEN ShowsApproval(heartbeat.trump, trump_approval_latest)
           ELSE IF ~IsNone(prev_trump_approval)
           THEN ShowsApproval(heartbeat.trump, prev_trump_approval)
           ELSE heartbeat.trump.line = "(no data yet)"

\* a heartbeat with the stored TSA fact of a source that failed in this
\* run, 'no data yet' for a source never extracted, and a fresh fact
C18_Witness ==
    /\ "heartbeat" \in sent
    /\ IsNone(tsa_latest)
    /\ ~IsNone(prev_tsa)
    /\ ShowsTsa(heartbeat.tsa, prev_tsa)
    /\ IsNone(approval_latest)
    /\ IsNone(prev_approval)
    /\ heartbeat.approval.line = "(no data yet)"
    /\ ~IsNone(trump_approval_latest)
    /\ ShowsApproval(heartbeat.trump, trump_approval_latest)

\* C20: a change is alerted in at most one run: a completed run that
\* extracts for a source the fact the last completed extraction of that
\* source gave sends no change alert for it, also when the alert of that
\* change was not delivered; nothing is retried.
C20_NoAlertForSameFact ==
    (pc = "done" /\ exit_code = 0) =>
        \A k \in Kinds : hist.fact[k] = Latest(k) => k \notin sent

\* the alert of the current top-free list was not delivered in an earlier
\* run, and this run, with the same list, sends none
C20_Witness ==
    /\ pc = "done"
    /\ exit_code = 0
    /\ "free" \in hist.lost
    /\ hist.fact["free"] = JList(free_top3)
    /\ "free" \notin sent

====
